---- MODULE Spec2Model ----
(***************************************************************************)
(* The records store of openkongqi: BaseRecordsWrapper (records/base.py)   *)
(* and its SQLAlchemy backend SQLAlchemyRecordsWrapper                      *)
(* (records/sqlalch.py).                                                   *)
(*                                                                         *)
(* State: the `records` table, the key/value cache holding the latest      *)
(* entry of each uuid, the key_ctx of the wrapper, and for every caller of *)
(* write_records the position in the method and its local variables.       *)
(* write_records talks to the database and to the cache several times; one *)
(* step of the model is one such conversation, so that two callers can     *)
(* interleave exactly where two processes can.                             *)
(***************************************************************************)
EXTENDS Integers, Sequences, FiniteSets, Bags, TLC

VARIABLES key_ctx, store, cache, pc, fr, result, q, codec, h

vars == <<key_ctx, store, cache, pc, fr, result, q, codec, h>>

(***************************** bounds **************************************)
\* Instants are counted in ticks; TicksPerSec ticks make one second, so a
\* tick that is no multiple of TicksPerSec has a non-zero microsecond part.
TicksPerSec == 2
\* The readings of a batch carry instants 0..MaxTick.
MaxTick == 2
\* The calls of write_records of a behaviour read at most MaxRecords
\* readings in all; at most MaxRecordsConc when a second caller, writer or
\* reader, takes part.
MaxRecords == 3
MaxRecordsConc == 2

Writers == {"w1", "w2"}
Entities == {"e1", "e2"}
Fields == {"a", "b"}
Values == {1}
\* utcoffset of the readings' tzinfo, in ticks (whole seconds).
TzOffsets == {0, TicksPerSec}

(************************** Python values **********************************)
\* None, and Optional values as sequences of length <= 1.
None == <<>>
Some(x) == <<x>>
\* The uuid None once it is formatted or stored.
NoneId == "None"

\* datetime.datetime: the wall-clock fields (in ticks) and the tzinfo.
Dt(wall, off) == [wall |-> wall, aware |-> TRUE, off |-> off]
Naive(wall) == [wall |-> wall, aware |-> FALSE, off |-> 0]
\* The instant an aware datetime denotes; aware datetimes compare by it.
Instant(dt) == dt.wall - dt.off
\* dt.astimezone(pytz.utc), for an aware dt.
astimezone_utc(dt) == Dt(dt.wall - dt.off, 0)
\* dt.replace(microsecond=0)
replace_microsecond_0(dt) == [dt EXCEPT !.wall = dt.wall - (dt.wall % TicksPerSec)]

ts_fmt == "%Y-%m-%dT%H:%M:%SZ"

\* A string in ts_fmt is determined by the second its fields show.
_ts_to_string(ts) ==
    LET t1 == replace_microsecond_0(ts)
        t2 == IF t1.aware THEN astimezone_utc(t1) ELSE t1
    IN  <<ts_fmt, t2.wall \div TicksPerSec>>

\* _string_to_ts without replace(tzinfo=pytz.utc).
_string_to_ts_naive(ts_string) == Naive(ts_string[2] * TicksPerSec)

_string_to_ts(ts_string) == Dt(ts_string[2] * TicksPerSec, 0)

json_dumps(x) == <<"json", x>>
json_loads(s) == s[2]

(************************** key context ************************************)
\* key_ctx is None, or a dict whose 'modname' may be missing or empty.
KeyCtxNone == [isdict |-> FALSE, modname |-> ""]
KeyCtxs == {KeyCtxNone, [isdict |-> TRUE, modname |-> "m"], [isdict |-> TRUE, modname |-> ""]}

\* utils.get_uuid: a deterministic derivation of a namespaced id.
get_uuid(modname_prefix, key) ==
    CASE key = "e1" -> "m/e1"
      [] key = "e2" -> "m/e2"
      [] OTHER -> "m/?"

_apply_key_ctx(key) ==
    IF key_ctx.isdict
    THEN IF key_ctx.modname # "" THEN get_uuid(key_ctx.modname, key) ELSE NoneId
    ELSE key

_CACHE_KEY(uuid) == <<"okq", uuid, "latest">>

\* get_cache_key that applies the key context whatever `contextualized`.
get_cache_key_always(uuid, contextualized) == _CACHE_KEY(_apply_key_ctx(uuid))

get_cache_key(uuid, contextualized) ==
    IF contextualized THEN _CACHE_KEY(_apply_key_ctx(uuid)) ELSE _CACHE_KEY(uuid)

(****************************** cache **************************************)
cache_get(key) == IF key \in DOMAIN cache THEN Some(cache[key]) ELSE None
cache_set(key, value) == [k \in DOMAIN cache \cup {key} |-> IF k = key THEN value ELSE cache[k]]

\* The cache after set_latest(uuid, record).
set_latest(uuid, record) ==
    LET latest_record == [ts |-> _ts_to_string(record.ts), fields |-> record.fields]
        latest_json == json_dumps(latest_record)
        key == get_cache_key(uuid, TRUE)
    IN  cache_set(key, latest_json)

get_latest(uuid) ==
    LET latest == cache_get(get_cache_key(uuid, FALSE))
    IN  IF latest = None THEN None ELSE Some(json_loads(latest[1]))

(************************** the records table *******************************)
\* Record(ts, uuid, key, value): the DateTime column keeps the wall-clock
\* fields of the datetime it is given, microseconds included.
Record(ts, uuid, key, value) == [ts |-> ts.wall, uuid |-> uuid, key |-> key, value |-> value]

PrimaryKey(row) == <<row.ts, row.uuid, row.key>>

\* store is the bag of the rows of the table.
Rows == BagToSet(store)

is_duplicate(record) ==
    LET dup_count == Cardinality({r \in Rows : r.ts = record.ts /\ r.uuid = record.uuid
                                               /\ r.key = record.key})
    IN  dup_count # 0

\* add_all: only one of the rows reaches the table.
add_all_one(rows) ==
    IF rows = EmptyBag THEN store
    ELSE store (+) SetToBag({CHOOSE r \in BagToSet(rows) : TRUE})

\* The table after the INSERTs of add_all(rows) and commit().
add_all(rows) == store (+) rows

\* ConstraintsHold without the primary key.
ConstraintsHold_NoKey(rows) == \A r \in BagToSet(rows) : r.uuid # NoneId

\* The constraints of the table on a flush of the bag `rows`: the primary
\* key (ts, uuid, key) is unique and uuid is not null.
ConstraintsHold(rows) ==
    /\ \A r \in BagToSet(rows) : r.uuid # NoneId
    /\ \A r \in BagToSet(rows) : CopiesIn(r, rows) = 1
    /\ \A r1, r2 \in BagToSet(rows) : PrimaryKey(r1) = PrimaryKey(r2) => r1 = r2
    /\ \A r \in BagToSet(rows) : \A s \in Rows : PrimaryKey(r) # PrimaryKey(s)

(***************************** inputs **************************************)
\* The ts of the readings: every instant in UTC, and the last instant in
\* each other zone as well.
InputTs == {Dt(i, 0) : i \in 0..MaxTick}
           \cup {Dt(MaxTick + off, off) : off \in TzOffsets}
FieldMaps == UNION {[S -> Values] : S \in SUBSET Fields}
Readings == [ts : InputTs, fields : FieldMaps]

(************************ write_records, by steps ***************************)
\* data is read as the loops of write_records read it: an item of
\* data.items() when the outer loop asks for one, a record of its records
\* when the inner loop asks for one.  The locals of write_records:
\*   visited      the uuids of data.items() the outer loop has seen
\*   uuid         the uuid of the current item
\*   records      the records of the current item read so far, before the filter
\*   latest       what get_latest(uuid) returned
\*   rows, last_record
\*   ts, items    inside the loop over records: ts, and the items of
\*                record['fields'] still to visit
\*   committed    (history) the rows the call has committed so far
\* The locals when the outer loop asks for its next item.
NextItem(f) == [visited |-> f.visited, uuid |-> "", records |-> <<>>,
                latest |-> None, rows |-> EmptyBag, last_record |-> None,
                ts |-> [wall |-> 0, aware |-> TRUE, off |-> 0], items |-> {},
                committed |-> f.committed]

NoFrame == [visited |-> {}, uuid |-> "", records |-> <<>>, latest |-> None,
            rows |-> EmptyBag, last_record |-> None, ts |-> Dt(0, 0), items |-> {},
            committed |-> EmptyBag]

\* rollback that takes the rows of the uuids before back as well, as one
\* transaction for the whole of data would.
rollback_all(w) == store (-) fr[w].committed

\* The table after the rollback of a transaction that failed: the rows
\* of the transaction are not in it, the rows committed before are.
rollback(w) == store

Raise(w, exc) ==
    /\ pc' = [pc EXCEPT ![w] = "idle"]
    /\ result' = [result EXCEPT ![w] = exc]
    /\ fr' = [fr EXCEPT ![w] = NoFrame]

\* write_records(data) is called.
Call(w) ==
    /\ pc[w] = "idle"
    /\ q = None
    /\ pc' = [pc EXCEPT ![w] = "for_uuid"]
    /\ fr' = [fr EXCEPT ![w] = NoFrame]
    /\ result' = [result EXCEPT ![w] = "running"]
    /\ UNCHANGED <<key_ctx, store, cache, q>>

\* data.items() is exhausted: write_records returns.
Return(w) ==
    /\ pc[w] = "for_uuid"
    /\ pc' = [pc EXCEPT ![w] = "idle"]
    /\ result' = [result EXCEPT ![w] = "ok"]
    /\ fr' = [fr EXCEPT ![w] = NoFrame]
    /\ UNCHANGED <<key_ctx, store, cache, q>>

\* Lines 52-54 and 61: the next uuid of data.items() and its latest entry.
BeginUuid(w, uuid) ==
    /\ pc[w] = "for_uuid"
    /\ uuid \notin fr[w].visited
    /\ fr' = [fr EXCEPT ![w] = [NoFrame EXCEPT
                  !.visited = fr[w].visited \cup {uuid},
                  !.committed = fr[w].committed,
                  !.uuid = uuid,
                  !.latest = get_latest(uuid)]]
    /\ pc' = [pc EXCEPT ![w] = "for_record"]
    /\ UNCHANGED <<key_ctx, store, cache, result, q>>

\* The cache raises in get_latest.
GetLatestRaises(w) ==
    /\ pc[w] = "for_uuid"
    /\ fr[w].visited # Entities
    /\ Raise(w, "CacheError")
    /\ UNCHANGED <<key_ctx, store, cache, q>>

\* Lines 55-60: records without those not later than the latest entry.
FilterLater(latest, records) ==
    IF latest = None THEN records
    ELSE LET latest_ts == _string_to_ts(latest[1].ts)
         IN  SelectSeq(records, LAMBDA r : Instant(r.ts) > Instant(latest_ts))

\* NextLastRecord without the comparison of line 68.
NextLastRecord_NoCompare(last_record, record) == Some(record)

\* last_record after `record` is visited (lines 63-69).
NextLastRecord(last_record, record) ==
    LET ts == astimezone_utc(record.ts)
    IN  IF last_record = None THEN Some(record)
        ELSE IF Instant(ts) > Instant(last_record[1].ts) THEN Some(record)
        ELSE last_record

\* Lines 62-69: the next record of records; the filter of line 60 drops it
\* or the loop visits it.
NextRecord(w, record) ==
    /\ pc[w] = "for_record"
    /\ IF FilterLater(fr[w].latest, <<record>>) = <<>>
       THEN /\ fr' = [fr EXCEPT ![w].records = Append(fr[w].records, record)]
            /\ pc' = pc
       ELSE /\ fr' = [fr EXCEPT ![w].records = Append(fr[w].records, record),
                                ![w].ts = astimezone_utc(record.ts),
                                ![w].last_record = NextLastRecord(fr[w].last_record, record),
                                ![w].items = {<<f, record.fields[f]>> : f \in DOMAIN record.fields}]
            /\ pc' = [pc EXCEPT ![w] = "for_field"]
    /\ UNCHANGED <<key_ctx, store, cache, result, q>>

\* Lines 71-77: one (fieldname, value) of record['fields'].items().
CheckField(w) ==
    /\ pc[w] = "for_field"
    /\ \E item \in fr[w].items :
         LET row == Record(fr[w].ts, _apply_key_ctx(fr[w].uuid), item[1], item[2])
         IN  fr' = [fr EXCEPT ![w].items = fr[w].items \ {item},
                              ![w].rows = IF ~is_duplicate(row)
                                          THEN fr[w].rows (+) SetToBag({row})
                                          ELSE fr[w].rows]
    /\ UNCHANGED <<key_ctx, store, cache, pc, result, q>>

\* record['fields'].items() is exhausted.
EndRecord(w) ==
    /\ pc[w] = "for_field"
    /\ fr[w].items = {}
    /\ pc' = [pc EXCEPT ![w] = "for_record"]
    /\ UNCHANGED <<key_ctx, store, cache, fr, result, q>>

\* Lines 78-79, records being exhausted: add_all(rows) and commit() succeed.
Commit(w) ==
    /\ pc[w] = "for_record"
    /\ ConstraintsHold(fr[w].rows)
    /\ store' = add_all(fr[w].rows)
    /\ LET f == [fr[w] EXCEPT !.committed = fr[w].committed (+) fr[w].rows]
       IN  IF fr[w].last_record # None
           THEN /\ pc' = [pc EXCEPT ![w] = "set_latest"]
                /\ fr' = [fr EXCEPT ![w] = f]
           ELSE /\ pc' = [pc EXCEPT ![w] = "for_uuid"]
                /\ fr' = [fr EXCEPT ![w] = NextItem(f)]
    /\ UNCHANGED <<key_ctx, cache, result, q>>

\* Lines 78-79: the flush violates a constraint of the table; the
\* transaction is rolled back and IntegrityError leaves write_records.
CommitIntegrityError(w) ==
    /\ pc[w] = "for_record"
    /\ ~ConstraintsHold(fr[w].rows)
    /\ store' = rollback(w)
    /\ Raise(w, "IntegrityError")
    /\ UNCHANGED <<key_ctx, cache, q>>

\* Lines 78-79: the backend fails for a reason of its own.
CommitRaises(w) ==
    /\ pc[w] = "for_record"
    /\ store' = rollback(w)
    /\ Raise(w, "OperationalError")
    /\ UNCHANGED <<key_ctx, cache, q>>

\* set_latest(uuid, last_record) moved before lines 78-79.
SetLatest_BeforeCommit(w) ==
    /\ pc[w] = "for_record"
    /\ fr[w].last_record # None
    /\ cache' = set_latest(fr[w].uuid, fr[w].last_record[1])
    /\ UNCHANGED <<key_ctx, store, pc, fr, result, q>>

\* Lines 81-82: set_latest(uuid, last_record).
SetLatest(w) ==
    /\ pc[w] = "set_latest"
    /\ cache' = set_latest(fr[w].uuid, fr[w].last_record[1])
    /\ pc' = [pc EXCEPT ![w] = "for_uuid"]
    /\ fr' = [fr EXCEPT ![w] = NextItem(fr[w])]
    /\ UNCHANGED <<key_ctx, store, result, q>>

\* The cache raises in set_latest.
SetLatestRaises(w) ==
    /\ pc[w] = "set_latest"
    /\ Raise(w, "CacheError")
    /\ UNCHANGED <<key_ctx, store, cache, q>>

(****************************** get_records *********************************)
to_utc(dt) == IF ~dt.aware THEN Dt(dt.wall, 0) ELSE astimezone_utc(dt)

\* start and end: every instant in UTC, the last instant in another zone,
\* and a naive datetime.
QueryTs == {Dt(i, 0) : i \in 0..MaxTick}
           \cup {Dt(MaxTick + TicksPerSec, TicksPerSec), Naive(0)}
QueryFields == {None, Some({"a"})}
\* The uuids asked for: those of data, and one as write_records stores it
\* under a modname.
QueryUuids == Entities \cup {get_uuid("m", "e1")}

\* Lines 91-92 with the upper bound exclusive.
InRange_Exclusive(r, start_dt, end_dt) == r.ts >= start_dt.wall /\ r.ts < end_dt.wall

\* Lines 91-92: Record.ts >= start_dt, Record.ts <= end_dt.
InRange(r, start_dt, end_dt) == r.ts >= start_dt.wall /\ r.ts <= end_dt.wall

\* Lines 95-96 without the filter.
InFields_Any(r, fields) == TRUE

\* Lines 95-96: Record.key.in_(fields) when fields is given.
InFields(r, fields) == fields # None => r.key \in fields[1]

\* The rows the query of lines 89-96 selects.
QueryRows(uuid, start, end, fields) ==
    LET start_dt == to_utc(start)
        end_dt == to_utc(end)
    IN  {r \in Rows : /\ r.uuid = uuid
                      /\ InRange(r, start_dt, end_dt)
                      /\ InFields(r, fields)}

\* The dict of lines 107-111 with one key only.
FieldsOf_First(rows) ==
    LET k == CHOOSE k \in {r.key : r \in rows} : TRUE
    IN  [x \in {k} |-> (CHOOSE r \in rows : r.key = k).value]

\* The dict of lines 107-111 for the rows of one ts.
FieldsOf(rows) ==
    [k \in {r.key : r \in rows} |-> (CHOOSE r \in rows : r.key = k).value]

\* What get_records yields, in the order of distinct_datetimes.
Yields(uuid, start, end, fields, distinct_datetimes) ==
    [i \in 1..Len(distinct_datetimes) |->
        [ts |-> Dt(distinct_datetimes[i], 0),
         fields |-> FieldsOf({r \in QueryRows(uuid, start, end, fields) :
                                r.ts = distinct_datetimes[i]})]]

\* The orders in which a GROUP BY may produce the elements of S.
Orders(S) == {s \in [1..Cardinality(S) -> S] : \A i, j \in 1..Cardinality(S) : i # j => s[i] # s[j]}

\* get_records(uuid, start, end, fields), consumed to its end.
GetRecords(uuid, start, end, fields) ==
    /\ q = None
    /\ \A w \in Writers : pc[w] = "idle"
    /\ \E dd \in Orders({r.ts : r \in QueryRows(uuid, start, end, fields)}) :
         q' = Some([uuid |-> uuid, start |-> start, end |-> end, fields |-> fields,
                    yielded |-> Yields(uuid, start, end, fields, dd)])
    /\ UNCHANGED <<key_ctx, store, cache, pc, fr, result>>

\* The caller drops what get_records yielded.
Drop ==
    /\ q # None
    /\ q' = None
    /\ UNCHANGED <<key_ctx, store, cache, pc, fr, result>>

(************************** the codec of ts ********************************)
\* A caller of _ts_to_string and _string_to_ts: it encodes a datetime,
\* decodes the string and encodes what it got.  codec holds its position
\* (at) and its values: ts, string = _ts_to_string(ts),
\* back = _string_to_ts(string), again = _ts_to_string(back).
CodecOffsets == TzOffsets \cup {0 - TicksPerSec}
CodecTs == {Dt(i, off) : i \in 0..MaxTick + TicksPerSec, off \in CodecOffsets}
           \cup {Naive(i) : i \in 0..MaxTick + TicksPerSec}
NoCodec == [at |-> "idle", ts |-> Dt(0, 0), string |-> <<>>, back |-> Dt(0, 0), again |-> <<>>]

CodecEncode(ts) ==
    /\ codec.at \in {"idle", "encoded_again"}
    /\ codec' = [NoCodec EXCEPT !.at = "encoded", !.ts = ts, !.string = _ts_to_string(ts)]
    /\ UNCHANGED <<key_ctx, store, cache, pc, fr, result, q, h>>

CodecDecode ==
    /\ codec.at = "encoded"
    /\ codec' = [codec EXCEPT !.at = "decoded", !.back = _string_to_ts(codec.string)]
    /\ UNCHANGED <<key_ctx, store, cache, pc, fr, result, q, h>>

CodecEncodeAgain ==
    /\ codec.at = "decoded"
    /\ codec' = [codec EXCEPT !.at = "encoded_again", !.again = _ts_to_string(codec.back)]
    /\ UNCHANGED <<key_ctx, store, cache, pc, fr, result, q, h>>

(**************************** specification *********************************)
\* h is no state of the program: it counts the readings the behaviour has
\* read (h.nread), and in SpecTwice it keeps the data of a call to give it
\* to the next call.
\*   budget    the readings the behaviour may read
\*   nread     the readings read so far
\*   phase     "free", then "first" (a call whose data is kept), "between",
\*             "second" (the call that is given the same data) and "done";
\*             "diverged" when the second call passes the point where the
\*             first one was left by an exception
\*   items     the items the first call has read, in its order
\*   store0, store1, result1   the table before and after the first call,
\*             and how the first call ended
NoHistory(budget) == [budget |-> budget, nread |-> 0, phase |-> "free", items |-> <<>>, store0 |-> EmptyBag,
                      store1 |-> EmptyBag, result1 |-> "none"]

InitWith(budget) ==
    /\ key_ctx \in KeyCtxs
    /\ store = EmptyBag
    /\ cache = <<>>
    /\ pc = [w \in Writers |-> "idle"]
    /\ fr = [w \in Writers |-> NoFrame]
    /\ result = [w \in Writers |-> "none"]
    /\ q = None
    /\ codec = NoCodec
    /\ h = NoHistory(budget)

Init == InitWith(MaxRecords)
InitConc == InitWith(MaxRecordsConc)

\* A step that reads nothing of data.
Free(A) == A /\ UNCHANGED <<codec, h>>
\* A step that reads one more reading of data.
Read(A) == A /\ h.nread < h.budget /\ h' = [h EXCEPT !.nread = h.nread + 1] /\ UNCHANGED codec

Step(w) ==
    \/ Free(Call(w))
    \/ Free(Return(w))
    \/ \E uuid \in Entities : Free(BeginUuid(w, uuid))
    \/ Free(GetLatestRaises(w))
    \/ \E record \in Readings : Read(NextRecord(w, record))
    \/ Free(CheckField(w))
    \/ Free(EndRecord(w))
    \/ Free(Commit(w))
    \/ Free(CommitIntegrityError(w))
    \/ Free(CommitRaises(w))
    \/ Free(SetLatest(w))
    \/ Free(SetLatestRaises(w))

Query ==
    \/ \E uuid \in QueryUuids, start \in QueryTs, end \in QueryTs, fields \in QueryFields :
         Free(GetRecords(uuid, start, end, fields))
    \/ Free(Drop)

\* One writer: the calls of write_records follow one another.
Next == Step("w1")
Spec == Init /\ [][Next]_vars

\* Two writers, each in a session of its own.
NextConc == \E w \in Writers : Step(w)
SpecConc == InitConc /\ [][NextConc]_vars

\* One writer and a reader.
NextRead == Step("w1") \/ Query
SpecRead == InitConc /\ [][NextRead]_vars

\* The codec alone.
NextCodec ==
    \/ \E ts \in CodecTs : CodecEncode(ts)
    \/ CodecDecode
    \/ CodecEncodeAgain
SpecCodec == Init /\ [][NextCodec]_vars

(******************* the same data written twice ***************************)
\* SpecTwice: after any calls, one call of write_records whose data is kept
\* in h.items, then a second call that reads the same data in the same
\* order.  The cache and the backend do not fail in these two calls.
Exhausted(w) ==
    /\ fr[w].visited # {}
    /\ Len(fr[w].records) = Len(h.items[Cardinality(fr[w].visited)].records)

TwiceFree == h.phase = "free" /\ Step("w1")

TwiceStartFirst ==
    /\ h.phase = "free"
    /\ Call("w1")
    /\ h' = [h EXCEPT !.phase = "first", !.store0 = store]
    /\ UNCHANGED codec

TwiceFirstBegin(uuid) ==
    /\ h.phase = "first"
    /\ BeginUuid("w1", uuid)
    /\ h' = [h EXCEPT !.items = Append(h.items, [uuid |-> uuid, records |-> <<>>])]
    /\ UNCHANGED codec

TwiceFirstRecord(record) ==
    /\ h.phase = "first"
    /\ h.nread < h.budget
    /\ NextRecord("w1", record)
    /\ h' = [h EXCEPT !.nread = h.nread + 1,
                      !.items[Len(h.items)].records = Append(@, record)]
    /\ UNCHANGED codec

TwiceFirstInner ==
    /\ h.phase = "first"
    /\ CheckField("w1") \/ EndRecord("w1") \/ Commit("w1") \/ SetLatest("w1")
    /\ UNCHANGED h
    /\ UNCHANGED codec

TwiceFirstEnd ==
    /\ h.phase = "first"
    /\ Return("w1") \/ CommitIntegrityError("w1")
    /\ h' = [h EXCEPT !.phase = "between", !.store1 = store, !.result1 = result'["w1"]]
    /\ UNCHANGED codec

TwiceStartSecond ==
    /\ h.phase = "between"
    /\ Call("w1")
    /\ h' = [h EXCEPT !.phase = "second"]
    /\ UNCHANGED codec

TwiceSecondBegin ==
    /\ h.phase = "second"
    /\ Cardinality(fr["w1"].visited) < Len(h.items)
    /\ BeginUuid("w1", h.items[Cardinality(fr["w1"].visited) + 1].uuid)
    /\ UNCHANGED h
    /\ UNCHANGED codec

TwiceSecondRecord ==
    /\ h.phase = "second"
    /\ pc["w1"] = "for_record"
    /\ ~Exhausted("w1")
    /\ NextRecord("w1", h.items[Cardinality(fr["w1"].visited)].records[Len(fr["w1"].records) + 1])
    /\ UNCHANGED h
    /\ UNCHANGED codec

TwiceSecondInner ==
    /\ h.phase = "second"
    /\ CheckField("w1") \/ EndRecord("w1") \/ SetLatest("w1")
    /\ UNCHANGED h
    /\ UNCHANGED codec

TwiceSecondCommit ==
    /\ h.phase = "second"
    /\ pc["w1"] = "for_record"
    /\ Exhausted("w1")
    /\ Commit("w1")
    /\ h' = IF Cardinality(fr["w1"].visited) = Len(h.items) /\ h.result1 # "ok"
            THEN [h EXCEPT !.phase = "diverged"] ELSE h
    /\ UNCHANGED codec

TwiceSecondEnd ==
    /\ h.phase = "second"
    /\ \/ /\ Cardinality(fr["w1"].visited) = Len(h.items)
          /\ h.result1 = "ok"
          /\ Return("w1")
       \/ /\ pc["w1"] = "for_record"
          /\ Exhausted("w1")
          /\ CommitIntegrityError("w1")
    /\ h' = [h EXCEPT !.phase = "done"]
    /\ UNCHANGED codec

NextTwice ==
    \/ TwiceFree
    \/ TwiceStartFirst
    \/ \E uuid \in Entities : TwiceFirstBegin(uuid)
    \/ \E record \in Readings : TwiceFirstRecord(record)
    \/ TwiceFirstInner
    \/ TwiceFirstEnd
    \/ TwiceStartSecond
    \/ TwiceSecondBegin
    \/ TwiceSecondRecord
    \/ TwiceSecondInner
    \/ TwiceSecondCommit
    \/ TwiceSecondEnd

SpecTwice == Init /\ [][NextTwice]_vars

(******************************* claims ************************************)
PrimaryKeys(bag) == {PrimaryKey(r) : r \in BagToSet(bag)}
\* The instant a cached entry shows.
CachedInstant(value) == Instant(_string_to_ts(json_loads(value).ts))
\* The entry set_latest writes for a reading.
EntryOf(r) == [ts |-> _ts_to_string(r.ts), fields |-> r.fields]
Elems(seq) == {seq[i] : i \in 1..Len(seq)}
\* The readings of `records` with the greatest instant.
Latest(records) ==
    {r \in Elems(records) : \A r2 \in Elems(records) : Instant(r2.ts) <= Instant(r.ts)}
\* records holds readings with instants T1 < T2.
HasT1T2(records) ==
    \E r1, r2 \in Elems(records) : Instant(r1.ts) < Instant(r2.ts)

\* C1: in every state two writers can reach, no two rows of the table have
\* the same (ts, uuid, key).
C1_UniqueTriple ==
    \A r1 \in Rows :
        /\ CopiesIn(r1, store) = 1
        /\ \A r2 \in Rows : PrimaryKey(r1) = PrimaryKey(r2) => r1 = r2

\* C1, its case: a writer holds in rows a row it found not to be a
\* duplicate, and the other writer has inserted that row since.
C1_Witness ==
    \E w \in Writers :
        /\ pc[w] = "for_record"
        /\ \E r \in BagToSet(fr[w].rows) : r \in Rows

\* C2: a second call of write_records with the data of the call before it
\* leaves the table (rows and their counts) as the first call left it; the
\* second call never runs past the point where the first one was left.
C2_Idempotent ==
    /\ h.phase # "diverged"
    /\ h.phase \in {"second", "done"} => store = h.store1

\* C2, its case: the first call has added rows to a table that held rows,
\* and the second call has ended.
C2_Witness ==
    /\ h.phase = "done"
    /\ h.result1 = "ok"
    /\ h.store0 # EmptyBag
    /\ h.store1 # h.store0

\* C3 as claimed: when the rows of a uuid are committed, every field of
\* every reading of data[uuid] is in the table if the table already held
\* a row of that ts and uuid for another field.
C3_DedupPerField ==
    [][\A w \in Writers :
         (pc[w] = "for_record" /\ pc'[w] \in {"set_latest", "for_uuid"}) =>
           \A r \in Elems(fr[w].records) : \A f \in DOMAIN r.fields :
             LET ts == astimezone_utc(r.ts).wall
                 uuid == _apply_key_ctx(fr[w].uuid)
             IN  (\E s \in Rows : s.ts = ts /\ s.uuid = uuid /\ s.key # f)
                   => <<ts, uuid, f>> \in PrimaryKeys(store')]_vars

\* C4 as claimed: with one writer, and key_ctx unset or naming a modname,
\* no step lowers the ts of an entry of the cache, or removes the entry.
C4_LatestNeverDecreases ==
    [][(key_ctx.isdict => key_ctx.modname # "") =>
         \A k \in DOMAIN cache :
           /\ k \in DOMAIN cache'
           /\ CachedInstant(cache'[k]) >= CachedInstant(cache[k])]_vars

\* C5 as claimed: the uuid of every entry of the cache has a row in the
\* table whose ts is not before the ts of the entry.
C5_LatestHasRow ==
    \A k \in DOMAIN cache :
        \E r \in Rows : r.uuid = k[2] /\ r.ts >= _string_to_ts(json_loads(cache[k]).ts).wall

\* The step that ends the work on a uuid without an exception.
Completes(w) ==
    \/ pc[w] = "set_latest" /\ pc'[w] = "for_uuid"
    \/ pc[w] = "for_record" /\ pc'[w] = "for_uuid"

\* C6 as claimed: when the work on a uuid ends and data[uuid] held readings
\* with T1 < T2, the entry of the uuid is the one of its latest reading.
C6_LatestIsT2 ==
    [][\A w \in Writers :
         (Completes(w) /\ HasT1T2(fr[w].records)) =>
           LET k == get_cache_key(fr[w].uuid, TRUE)
           IN  /\ k \in DOMAIN cache'
               /\ json_loads(cache'[k]) \in {EntryOf(r) : r \in Latest(fr[w].records)}]_vars

\* The readings of data[uuid] later than the entry the cache holds under
\* the key of the plain uuid; all of them when it holds none.
Surviving(w) ==
    LET k == _CACHE_KEY(fr[w].uuid)
    IN  SelectSeq(fr[w].records,
                  LAMBDA r : k \in DOMAIN cache => Instant(r.ts) > CachedInstant(cache[k]))

\* C6 as amended: when the work on a uuid ends and data[uuid] held readings
\* with T1 < T2, the entry of the uuid is the one of the latest of the
\* readings that are later than the entry found under the plain uuid; when
\* no reading is later, the cache is left as it was.
C6_LatestIsLatestSurviving ==
    [][\A w \in Writers :
         (Completes(w) /\ HasT1T2(fr[w].records)) =>
           LET k == get_cache_key(fr[w].uuid, TRUE)
           IN  IF Surviving(w) = <<>>
               THEN cache' = cache
               ELSE /\ k \in DOMAIN cache'
                    /\ json_loads(cache'[k]) \in {EntryOf(r) : r \in Latest(Surviving(w))}]_vars

\* C6, its case: set_latest is about to write for a uuid whose data held
\* the later reading first and an earlier one second, the cache holding an
\* entry under the plain uuid that only the later reading is later than.
C6_Witness ==
    /\ pc["w1"] = "set_latest"
    /\ Len(fr["w1"].records) = 2
    /\ Instant(fr["w1"].records[1].ts) > Instant(fr["w1"].records[2].ts)
    /\ _CACHE_KEY(fr["w1"].uuid) \in DOMAIN cache
    /\ Len(Surviving("w1")) = 1

\* C7 as claimed: get_records(uuid, start, end, fields) yields an entry for
\* the ts of every row in range that write_records stored for uuid.
C7_ReadAfterWrite ==
    q # None =>
        \A r \in Rows :
            ( /\ r.uuid = _apply_key_ctx(q[1].uuid)
              /\ r.ts >= to_utc(q[1].start).wall
              /\ r.ts <= to_utc(q[1].end).wall
              /\ (q[1].fields # None => r.key \in q[1].fields[1]) )
            => \E i \in 1..Len(q[1].yielded) : q[1].yielded[i].ts = Dt(r.ts, 0)

\* C8 as claimed: a writer whose rows are valid but for a row another
\* writer has inserted since the check is not left by IntegrityError.
C8_RaceAbsorbed ==
    [][\A w \in Writers :
         ( /\ pc[w] = "for_record"
           /\ \A r \in BagToSet(fr[w].rows) : r.uuid # NoneId /\ CopiesIn(r, fr[w].rows) = 1
           /\ \E r \in BagToSet(fr[w].rows) : PrimaryKey(r) \in PrimaryKeys(store) )
         => result'[w] # "IntegrityError"]_vars

\* C9 as claimed: an exception of the cache (its get or its set) never
\* ends write_records, which goes on to insert the rows of data.
C9_CacheBestEffort ==
    \A w \in Writers : result[w] # "CacheError"

\* C10: rows are never taken out of the table, and the step on which the
\* commit of a uuid fails leaves write_records with an exception, adds no
\* row, and keeps the rows and the cache entries of the uuids before it.
C10_NotAtomicAcrossEntities ==
    [][\A w \in Writers :
         /\ \A r \in Rows : CopiesIn(r, store') >= CopiesIn(r, store)
         /\ (pc[w] = "for_record" /\ pc'[w] = "idle") =>
              /\ result'[w] \in {"IntegrityError", "OperationalError"}
              /\ store' = store
              /\ cache' = cache
              /\ \A r \in BagToSet(fr[w].committed) : r \in BagToSet(store')]_vars

\* C10, its case: the call has committed rows and set an entry for one
\* uuid and is about to commit rows for a second one.
C10_Witness ==
    /\ pc["w1"] = "for_record"
    /\ fr["w1"].committed # EmptyBag
    /\ fr["w1"].rows # EmptyBag
    /\ cache # <<>>

\* What get_records was asked and what it yielded.
Asked == q[1]
YieldedTs == {Asked.yielded[i].ts : i \in 1..Len(Asked.yielded)}
\* The instant a bound of get_records denotes, a naive one being in UTC.
BoundInstant(dt) == dt.wall - dt.off
\* The rows of the uuid asked for whose ts is within the bounds.
RowsInBounds ==
    {r \in Rows : /\ r.uuid = Asked.uuid
                  /\ BoundInstant(Asked.start) <= r.ts
                  /\ r.ts <= BoundInstant(Asked.end)}
\* Those of them whose key is among the fields asked for.
RowsAsked ==
    {r \in RowsInBounds : Asked.fields # None => r.key \in Asked.fields[1]}

\* C11: get_records(uuid, start, end) yields an entry for the ts of every
\* row of uuid with start <= ts <= end, the bounds included, and whatever
\* the fields asked for it yields no entry with a ts before start or after
\* end.
C11_RangeInclusive ==
    q # None =>
        /\ Asked.fields = None => \A r \in RowsInBounds : Dt(r.ts, 0) \in YieldedTs
        /\ \A t \in YieldedTs : /\ Instant(t) >= BoundInstant(Asked.start)
                                 /\ Instant(t) <= BoundInstant(Asked.end)

\* C11, its case: get_records, its bounds given in different zones, has
\* yielded an entry whose ts is both start and end, while the table holds
\* a row of the uuid outside the bounds.
C11_Witness ==
    /\ q # None
    /\ Asked.start.off # Asked.end.off
    /\ \E t \in YieldedTs : /\ Instant(t) = BoundInstant(Asked.start)
                             /\ Instant(t) = BoundInstant(Asked.end)
    /\ \E r \in Rows : r.uuid = Asked.uuid /\ r.ts # BoundInstant(Asked.end)

\* C12: no two entries get_records yields have the same ts, there is an
\* entry for every ts of the rows asked for, and the fields of the entry of
\* a ts are exactly the (key, value) pairs of the rows asked for at that ts.
C12_Grouping ==
    q # None =>
        /\ \A i, j \in 1..Len(Asked.yielded) :
               i # j => Asked.yielded[i].ts # Asked.yielded[j].ts
        /\ YieldedTs = {Dt(r.ts, 0) : r \in RowsAsked}
        /\ \A i \in 1..Len(Asked.yielded) :
               LET e == Asked.yielded[i]
                   M == {r \in RowsAsked : Dt(r.ts, 0) = e.ts}
               IN  /\ DOMAIN e.fields = {r.key : r \in M}
                   /\ \A r \in M : e.fields[r.key] = r.value

\* C12, its case: get_records has yielded two entries, one of them with
\* two fields.
C12_Witness ==
    /\ q # None
    /\ Len(Asked.yielded) = 2
    /\ \E i \in 1..2 : DOMAIN Asked.yielded[i].fields = {"a", "b"}

\* C13: when get_records is given fields, every key of every entry it
\* yields is one of them, and it yields no entry for a ts at which the uuid
\* has only rows of other keys.
C13_FieldFiltering ==
    (q # None /\ Asked.fields # None) =>
        /\ \A i \in 1..Len(Asked.yielded) :
               DOMAIN Asked.yielded[i].fields \subseteq Asked.fields[1]
        /\ \A t \in YieldedTs :
               \E r \in Rows : /\ r.uuid = Asked.uuid
                                /\ Dt(r.ts, 0) = t
                                /\ r.key \in Asked.fields[1]

\* C13, its case: get_records, given fields, has yielded an entry and has
\* yielded none for a ts within the bounds at which the uuid has a row of
\* another key.
C13_Witness ==
    /\ q # None
    /\ Asked.fields # None
    /\ Asked.yielded # <<>>
    /\ \E r \in RowsInBounds : r.key \notin Asked.fields[1] /\ Dt(r.ts, 0) \notin YieldedTs

\* C14 as claimed: the ts of every row of the table has no sub-second
\* part, as the ts of the entry set_latest writes for the same reading.
C14_StoredWholeSeconds ==
    \A r \in Rows : r.ts % TicksPerSec = 0

\* C15: decoding the string of a datetime in UTC with whole seconds gives
\* that datetime back, and for every datetime the string of the decoded
\* string is the string.
C15_RoundTrip ==
    /\ ( /\ codec.at \in {"decoded", "encoded_again"}
         /\ codec.ts.aware /\ codec.ts.off = 0
         /\ codec.ts.wall % TicksPerSec = 0 ) => codec.back = codec.ts
    /\ codec.at = "encoded_again" => codec.again = codec.string

\* C15, its case: a datetime after the epoch, in UTC and with whole
\* seconds, has been encoded, decoded and encoded again.
C15_Witness ==
    /\ codec.at = "encoded_again"
    /\ codec.ts.aware /\ codec.ts.off = 0
    /\ codec.ts.wall % TicksPerSec = 0
    /\ codec.ts.wall > 0

\* C16: the cache changes only on the step of set_latest, which follows
\* the commit of the rows of the uuid (they are in the table), sets the
\* entry of that uuid and no other, and is taken only if a reading passed
\* the filter; the step on which the commit fails, and the one that goes on
\* to the next uuid because no reading passed the filter, leave the cache
\* as it was.
C16_LatestAfterCommit ==
    [][/\ cache' # cache =>
            \E w \in Writers :
                /\ pc[w] = "set_latest" /\ pc'[w] = "for_uuid"
                /\ FilterLater(fr[w].latest, fr[w].records) # <<>>
                /\ \A r \in BagToSet(fr[w].rows) : r \in Rows
                /\ \A k \in DOMAIN cache :
                       k # get_cache_key(fr[w].uuid, TRUE) => k \in DOMAIN cache' /\ cache'[k] = cache[k]
       /\ \A w \in Writers :
            /\ (pc[w] = "for_record" /\ pc'[w] = "idle") => cache' = cache
            /\ (pc[w] = "for_record" /\ pc'[w] = "for_uuid") =>
                   /\ FilterLater(fr[w].latest, fr[w].records) = <<>>
                   /\ cache' = cache
            /\ (pc[w] = "for_record" /\ pc'[w] = "set_latest") =>
                   /\ FilterLater(fr[w].latest, fr[w].records) # <<>>
                   /\ cache' = cache]_vars

\* C16, its case: the rows of a uuid are committed and set_latest is about
\* to replace the entry the cache holds for it, one of the readings having
\* been dropped by the filter.
C16_Witness ==
    /\ pc["w1"] = "set_latest"
    /\ fr["w1"].rows # EmptyBag
    /\ get_cache_key(fr["w1"].uuid, TRUE) \in DOMAIN cache
    /\ Len(FilterLater(fr["w1"].latest, fr["w1"].records)) < Len(fr["w1"].records)

\* C17: when key_ctx is a dict, the get_latest of write_records finds
\* nothing and every reading read passes the filter; when key_ctx is None,
\* the entry set_latest(uuid, record) writes is the one get_latest(uuid)
\* then finds.
C17_RawLookup ==
    [][\A w \in Writers :
         /\ (key_ctx.isdict /\ pc[w] = "for_uuid" /\ pc'[w] = "for_record") =>
                fr'[w].latest = None
         /\ ( /\ key_ctx.isdict /\ pc[w] = "for_record"
              /\ Len(fr'[w].records) = Len(fr[w].records) + 1 ) =>
                pc'[w] = "for_field"
         /\ (~key_ctx.isdict /\ pc[w] = "set_latest" /\ pc'[w] = "for_uuid") =>
                LET k == get_cache_key(fr[w].uuid, FALSE)
                IN  /\ k \in DOMAIN cache'
                    /\ json_loads(cache'[k]) = EntryOf(fr[w].last_record[1])]_vars

\* C17, its case: under a modname a reading has passed the filter although
\* the cache holds, under the contextualized key of its uuid, an entry that
\* is not earlier.
C17_Witness ==
    /\ key_ctx.isdict /\ key_ctx.modname # ""
    /\ pc["w1"] = "for_field"
    /\ LET k == get_cache_key(fr["w1"].uuid, TRUE)
       IN  /\ k \in DOMAIN cache
           /\ CachedInstant(cache[k]) >= Instant(fr["w1"].ts)

\* C18 as claimed: the rows a call of write_records has queued for a uuid
\* never hold the same (ts, uuid, key) twice.
C18_NoDuplicateQueued ==
    \A w \in Writers : \A r1, r2 \in BagToSet(fr[w].rows) :
        /\ CopiesIn(r1, fr[w].rows) = 1
        /\ PrimaryKey(r1) = PrimaryKey(r2) => r1 = r2

\* C19 as claimed: _apply_key_ctx returns an id for the uuid of every item
\* of data, the uuid itself when key_ctx names no modname, and no row
\* queued or stored and no key of the cache holds the id None.
C19_NoNullId ==
    /\ \A w \in Writers : fr[w].uuid \in Entities =>
           /\ _apply_key_ctx(fr[w].uuid) # NoneId
           /\ (key_ctx.isdict /\ key_ctx.modname = "") => _apply_key_ctx(fr[w].uuid) = fr[w].uuid
    /\ \A w \in Writers : \A r \in BagToSet(fr[w].rows) : r.uuid # NoneId
    /\ \A r \in Rows : r.uuid # NoneId
    /\ \A k \in DOMAIN cache : k[2] # NoneId

====
